---- MODULE Spec2Model ----
(***************************************************************************)
(* Model of internal/processor/processor.go: Processor.Process, its rate   *)
(* limiter, job sender, closer and collector goroutines, Processor.worker  *)
(* and Processor.processJob.                                               *)
(*                                                                         *)
(* A Job is identified by its position in the job list (1..Len(jobs)).     *)
(* An Article / AnalysisResult produced for job j is represented by j, and *)
(* the nil pointer by Nil.                                                 *)
(***************************************************************************)
EXTENDS Integers, Sequences, FiniteSets, TLC

\* Bounds of the model.
MaxJobs == 2
MaxWorkers == 2

Nil == 0
NoError == "none"
FetchFailed == "fetch failed"
AnalysisFailed == "analysis failed"
Canceled == "context canceled"

VARIABLES
  jobs,             \* the jobs argument of Process
  maxWorkers,       \* Processor.maxWorkers
  cancelled,        \* ctx.Done() is closed
  mainPC,           \* Process itself: "call", "collect", "returned"
  jobChan,          \* buffered channel jobChan (cap len(jobs))
  jobChanClosed,
  rateLimitedJobs,  \* buffered channel rateLimitedJobs (cap maxWorkers)
  rateLimitedClosed,
  resultChan,       \* buffered channel resultChan (cap len(jobs))
  resultClosed,
  tickReady,        \* rateLimiter.C holds a tick (its buffer is 1)
  ticks,            \* ticks the ticker has delivered on rateLimiter.C
  senderPC,         \* job sender goroutine: "idle", "loop", "done"
  senderIdx,        \* index of the next job the sender offers
  gatePC,           \* rate limiter goroutine: "idle", "range", "select", "send", "done"
  gateJob,          \* the job variable of the rate limiter's loop
  wPC,              \* per started worker: "range", "check", "fetch", "analyze", "emit", "done"
  wJob,             \* per worker: the job variable of its loop
  wResult,          \* per worker: the Result being built / about to be sent
  wExit,            \* per worker: the pending send is followed by return
  wgCount,          \* sync.WaitGroup counter
  closerPC,         \* closer goroutine: "idle", "wait", "done"
  results,          \* the collector's results slice
  completed,        \* the collector's completed counter
  \* history of the run (not program state)
  admitted,         \* jobs placed on rateLimitedJobs, in order
  pulls,            \* per job: how many times a worker received it
  pulledCancelled,  \* per worker: it received its job while ctx was done
  fetchCalls,       \* per job: calls of fetcher.Fetch
  fetchOut,         \* per job: outcome of the last Fetch ("none", "ok", "fail")
  analyzeCalls,     \* per job: calls of llmProvider.Analyze
  analyzeOut,       \* per job: outcome of the last Analyze
  emitted,          \* Results sent on resultChan, in order
  calls,            \* invocations of callback, in order
  \* parseAnalysisResult (internal/llm)
  content,          \* the content argument: the text of the backend's response
  parsed,           \* what parseAnalysisResult returned, or NotParsed
  \* construction of the Processor (run, config.Load, Config.Validate, New)
  ctorPC,           \* "off", "load", "flags", "new", "built", "error", "running", "panic"
  ctorIn,           \* the inputs: configuration file, CLI flag, or direct arguments of New
  cfg,              \* the Config that run holds
  proc              \* the Processor that New returned, or Nil

chans == <<jobChan, jobChanClosed, rateLimitedJobs, rateLimitedClosed, resultChan, resultClosed>>
ticker == <<tickReady, ticks>>
senderVars == <<senderPC, senderIdx>>
gateVars == <<gatePC, gateJob>>
workerVars == <<wPC, wJob, wResult, wExit>>
collectVars == <<results, completed>>
history == <<admitted, pulls, pulledCancelled, fetchCalls, fetchOut, analyzeCalls, analyzeOut,
             emitted, calls>>
pipeline == <<jobs, maxWorkers, cancelled, mainPC, chans, ticker, senderVars, gateVars,
              workerVars, wgCount, closerPC, collectVars, history>>
parseVars == <<content, parsed>>
ctorVars == <<ctorPC, ctorIn, cfg, proc>>
aside == <<parseVars, ctorVars>>
vars == <<pipeline, aside>>

JobIds == 1..Len(jobs)
\* the worker goroutines that exist
Workers == DOMAIN wPC

\* Variant of StartedWorkers: the start loop runs once more.
StartedWorkersExtra == 1..(maxWorkers + 1)

\* Start workers: for i := 0; i < p.maxWorkers; i++
StartedWorkers == 1..maxWorkers

\* type Result struct { Job; Article; Analysis; Error }
Result(job, article, analysis, error) ==
  [Job |-> job, Article |-> article, Analysis |-> analysis, Error |-> error]

\* worker: Result{Job: job, Error: ctx.Err()}
CancelResult(job) == Result(job, Nil, Nil, Canceled)

\* processJob: result := Result{Job: job}
NewResult(job) == Result(job, Nil, Nil, NoError)

\* Variant of AfterFetch: the Article is stored before err is examined.
AfterFetchKeepsArticle(result, ok) ==
  IF ok THEN [result EXCEPT !.Article = result.Job]
        ELSE [result EXCEPT !.Article = result.Job, !.Error = FetchFailed]

\* processJob, Step 1: the Result after fetcher.Fetch returned (ok = err == nil)
AfterFetch(result, ok) ==
  IF ok THEN [result EXCEPT !.Article = result.Job]
        ELSE [result EXCEPT !.Error = FetchFailed]

\* Variant of FetchContinues: Step 2 runs whatever Step 1 returned.
FetchContinuesAlways(ok) == TRUE

\* processJob, Step 1: fall through to Step 2 only when err == nil
FetchContinues(ok) == ok

\* Variant of AfterFetchFailure: the fetch is attempted again.
AfterFetchFailureRetry == "fetch"

\* processJob, Step 1: return result when err != nil; the worker sends it
AfterFetchFailure == "emit"

\* Variant of AfterAnalyze: the error of Analyze is dropped.
AfterAnalyzeDropsError(result, ok) ==
  IF ok THEN [result EXCEPT !.Analysis = result.Job]
        ELSE result

\* processJob, Step 2: the Result after llmProvider.Analyze returned
AfterAnalyze(result, ok) ==
  IF ok THEN [result EXCEPT !.Analysis = result.Job]
        ELSE [result EXCEPT !.Error = AnalysisFailed]

\* make(chan Job, len(jobs))
JobChanCap == Len(jobs)

\* Variant of ResultChanCap: a result channel with one slot per worker.
ResultChanCapWorkers == maxWorkers

\* make(chan Result, len(jobs))
ResultChanCap == Len(jobs)

\* make(chan Job, p.maxWorkers)
RateLimitedCap == maxWorkers

NotParsed == [err |-> "pending", result |-> Nil]

\* Nothing is being parsed or constructed.
AsideIdle ==
  /\ content = <<>> /\ parsed = NotParsed
  /\ ctorPC = "off" /\ ctorIn = Nil /\ cfg = Nil /\ proc = Nil

\* The state before Process is called with the given jobs and worker count.
BeforeProcess(js, n) ==
  /\ jobs = js
  /\ maxWorkers = n
  /\ cancelled = FALSE
  /\ mainPC = "call"
  /\ jobChan = <<>> /\ jobChanClosed = FALSE
  /\ rateLimitedJobs = <<>> /\ rateLimitedClosed = FALSE
  /\ resultChan = <<>> /\ resultClosed = FALSE
  /\ tickReady = FALSE /\ ticks = 0
  /\ senderPC = "idle" /\ senderIdx = 1
  /\ gatePC = "idle" /\ gateJob = Nil
  /\ wPC = <<>> /\ wJob = <<>> /\ wResult = <<>> /\ wExit = <<>>
  /\ wgCount = 0
  /\ closerPC = "idle"
  /\ results = <<>> /\ completed = 0
  /\ admitted = <<>>
  /\ pulls = [j \in JobIds |-> 0]
  /\ pulledCancelled = <<>>
  /\ fetchCalls = [j \in JobIds |-> 0]
  /\ fetchOut = [j \in JobIds |-> "none"]
  /\ analyzeCalls = [j \in JobIds |-> 0]
  /\ analyzeOut = [j \in JobIds |-> "none"]
  /\ emitted = <<>>
  /\ calls = <<>>

Init ==
  /\ \E k \in 0..MaxJobs, n \in 1..MaxWorkers : BeforeProcess([i \in 1..k |-> i], n)
  /\ AsideIdle

\* The caller's cancel() (signal handler in main): ctx.Done() becomes readable.
\* A ctx cancelled before the call is the run in which this is the first step
\* after ProcessStart, no goroutine having acted in between.
Cancel ==
  /\ ~cancelled
  /\ mainPC = "collect"
  /\ cancelled' = TRUE
  /\ UNCHANGED <<aside, jobs, maxWorkers, mainPC, chans, ticker, senderVars, gateVars,
                 workerVars, wgCount, closerPC, collectVars, history>>

\* Variant of IsEmpty: the early return is never taken.
IsEmptyNever == FALSE

\* Process: if len(jobs) == 0
IsEmpty == Len(jobs) = 0

\* Process, empty job list: return nil.
ProcessEmpty ==
  /\ mainPC = "call"
  /\ IsEmpty
  /\ mainPC' = "returned"
  /\ UNCHANGED <<aside, jobs, maxWorkers, cancelled, chans, ticker, senderVars, gateVars,
                 workerVars, wgCount, closerPC, collectVars, history>>

\* Process, non-empty job list: make the channels, start the ticker, the rate
\* limiter, maxWorkers workers (wg.Add(1) each), the sender and the closer.
ProcessStart ==
  /\ mainPC = "call"
  /\ ~IsEmpty
  /\ mainPC' = "collect"
  /\ senderPC' = "loop"
  /\ gatePC' = "range"
  /\ wPC' = [w \in StartedWorkers |-> "range"]
  /\ wJob' = [w \in StartedWorkers |-> Nil]
  /\ wResult' = [w \in StartedWorkers |-> NewResult(Nil)]
  /\ wExit' = [w \in StartedWorkers |-> FALSE]
  /\ pulledCancelled' = [w \in StartedWorkers |-> FALSE]
  /\ wgCount' = Cardinality(StartedWorkers)
  /\ closerPC' = "wait"
  /\ UNCHANGED <<aside, jobs, maxWorkers, cancelled, chans, ticker, senderIdx, gateJob,
                 collectVars, admitted, pulls, fetchCalls, fetchOut, analyzeCalls,
                 analyzeOut, emitted, calls>>

\* time.Ticker: a tick is delivered on rateLimiter.C when its one-slot buffer
\* is empty (a tick that finds the buffer full is dropped and changes nothing).
\* The deferred rateLimiter.Stop() ends the ticks when Process returns.
Tick ==
  /\ mainPC = "collect"
  /\ ~tickReady
  /\ tickReady' = TRUE
  /\ ticks' = ticks + 1
  /\ UNCHANGED <<aside, jobs, maxWorkers, cancelled, mainPC, chans, senderVars, gateVars,
                 workerVars, wgCount, closerPC, collectVars, history>>

---------------------------------------------------------------------------
\* Job sender goroutine: for _, job := range jobs { select { ... } }

\* case jobChan <- job
SenderSend ==
  /\ senderPC = "loop"
  /\ senderIdx <= Len(jobs)
  /\ Len(jobChan) < JobChanCap
  /\ jobChan' = Append(jobChan, jobs[senderIdx])
  /\ senderIdx' = senderIdx + 1
  /\ UNCHANGED <<aside, jobs, maxWorkers, cancelled, mainPC, jobChanClosed, rateLimitedJobs,
                 rateLimitedClosed, resultChan, resultClosed, ticker, senderPC, gateVars,
                 workerVars, wgCount, closerPC, collectVars, history>>

\* Variant of SenderCancel: the sender returns without closing jobChan.
SenderCancelNoClose ==
  /\ senderPC = "loop"
  /\ senderIdx <= Len(jobs)
  /\ cancelled
  /\ senderPC' = "done"
  /\ UNCHANGED <<aside, jobs, maxWorkers, cancelled, mainPC, chans, ticker, senderIdx,
                 gateVars, workerVars, wgCount, closerPC, collectVars, history>>

\* Variant of SenderCancel: jobChan is closed but the loop goes on.
SenderCancelNoReturn ==
  /\ senderPC = "loop"
  /\ senderIdx <= Len(jobs)
  /\ cancelled
  /\ ~jobChanClosed
  /\ jobChanClosed' = TRUE
  /\ UNCHANGED <<aside, jobs, maxWorkers, cancelled, mainPC, jobChan, rateLimitedJobs,
                 rateLimitedClosed, resultChan, resultClosed, ticker, senderPC, senderIdx,
                 gateVars, workerVars, wgCount, closerPC, collectVars, history>>

\* case <-ctx.Done(): close(jobChan); return
SenderCancel ==
  /\ senderPC = "loop"
  /\ senderIdx <= Len(jobs)
  /\ cancelled
  /\ jobChanClosed' = TRUE
  /\ senderPC' = "done"
  /\ UNCHANGED <<aside, jobs, maxWorkers, cancelled, mainPC, jobChan, rateLimitedJobs,
                 rateLimitedClosed, resultChan, resultClosed, ticker, senderIdx, gateVars,
                 workerVars, wgCount, closerPC, collectVars, history>>

\* after the loop: close(jobChan)
SenderClose ==
  /\ senderPC = "loop"
  /\ senderIdx > Len(jobs)
  /\ jobChanClosed' = TRUE
  /\ senderPC' = "done"
  /\ UNCHANGED <<aside, jobs, maxWorkers, cancelled, mainPC, jobChan, rateLimitedJobs,
                 rateLimitedClosed, resultChan, resultClosed, ticker, senderIdx, gateVars,
                 workerVars, wgCount, closerPC, collectVars, history>>

---------------------------------------------------------------------------
\* Rate limiter goroutine: defer close(rateLimitedJobs); for job := range jobChan

\* for job := range jobChan: receive the next job
GateRecv ==
  /\ gatePC = "range"
  /\ jobChan # <<>>
  /\ gateJob' = Head(jobChan)
  /\ jobChan' = Tail(jobChan)
  /\ gatePC' = "select"
  /\ UNCHANGED <<aside, jobs, maxWorkers, cancelled, mainPC, jobChanClosed, rateLimitedJobs,
                 rateLimitedClosed, resultChan, resultClosed, ticker, senderVars,
                 workerVars, wgCount, closerPC, collectVars, history>>

\* for job := range jobChan: jobChan is closed and drained; the deferred close runs
GateRangeEnd ==
  /\ gatePC = "range"
  /\ jobChan = <<>>
  /\ jobChanClosed
  /\ rateLimitedClosed' = TRUE
  /\ gatePC' = "done"
  /\ UNCHANGED <<aside, jobs, maxWorkers, cancelled, mainPC, jobChan, jobChanClosed, rateLimitedJobs,
                 resultChan, resultClosed, ticker, senderVars, gateJob,
                 workerVars, wgCount, closerPC, collectVars, history>>

\* Variant of GateSelectCancel: the job in hand is dropped but the loop goes on.
GateSelectCancelContinues ==
  /\ gatePC = "select"
  /\ cancelled
  /\ gatePC' = "range"
  /\ UNCHANGED <<aside, jobs, maxWorkers, cancelled, mainPC, chans, ticker, senderVars, gateJob,
                 workerVars, wgCount, closerPC, collectVars, history>>

\* Variant of GateSelectCancel: the dropped job is reported with a cancellation Result.
GateSelectCancelReports ==
  /\ gatePC = "select"
  /\ cancelled
  /\ rateLimitedClosed' = TRUE
  /\ gatePC' = "done"
  /\ resultChan' = Append(resultChan, CancelResult(gateJob))
  /\ emitted' = Append(emitted, CancelResult(gateJob))
  /\ UNCHANGED <<aside, jobs, maxWorkers, cancelled, mainPC, jobChan, jobChanClosed, rateLimitedJobs,
                 resultClosed, ticker, senderVars, gateJob,
                 workerVars, wgCount, closerPC, collectVars,
                 admitted, pulls, pulledCancelled, fetchCalls, fetchOut, analyzeCalls,
                 analyzeOut, calls>>

\* case <-ctx.Done(): return (the deferred close runs, the job in hand is dropped)
GateSelectCancel ==
  /\ gatePC = "select"
  /\ cancelled
  /\ rateLimitedClosed' = TRUE
  /\ gatePC' = "done"
  /\ UNCHANGED <<aside, jobs, maxWorkers, cancelled, mainPC, jobChan, jobChanClosed, rateLimitedJobs,
                 resultChan, resultClosed, ticker, senderVars, gateJob,
                 workerVars, wgCount, closerPC, collectVars, history>>

\* Variant of GateSelectTick: the job goes on without waiting for a tick.
GateSelectNoTick ==
  /\ gatePC = "select"
  /\ gatePC' = "send"
  /\ UNCHANGED <<aside, jobs, maxWorkers, cancelled, mainPC, chans, ticker, senderVars, gateJob,
                 workerVars, wgCount, closerPC, collectVars, history>>

\* case <-rateLimiter.C: the tick is taken from the ticker's channel
GateSelectTick ==
  /\ gatePC = "select"
  /\ tickReady
  /\ tickReady' = FALSE
  /\ gatePC' = "send"
  /\ UNCHANGED <<aside, jobs, maxWorkers, cancelled, mainPC, chans, ticks, senderVars, gateJob,
                 workerVars, wgCount, closerPC, collectVars, history>>

\* rateLimitedJobs <- job (blocks while the buffer is full)
GateSend ==
  /\ gatePC = "send"
  /\ Len(rateLimitedJobs) < RateLimitedCap
  /\ rateLimitedJobs' = Append(rateLimitedJobs, gateJob)
  /\ admitted' = Append(admitted, gateJob)
  /\ gatePC' = "range"
  /\ UNCHANGED <<aside, jobs, maxWorkers, cancelled, mainPC, jobChan, jobChanClosed,
                 rateLimitedClosed, resultChan, resultClosed, ticker, senderVars, gateJob,
                 workerVars, wgCount, closerPC, collectVars,
                 pulls, pulledCancelled, fetchCalls, fetchOut, analyzeCalls, analyzeOut,
                 emitted, calls>>

---------------------------------------------------------------------------
\* Processor.worker: for job := range jobs { select {ctx.Done / default}; processJob; send }

\* Variant of AfterReceive: the received job stays in the channel.
AfterReceiveKeeps(ch) == ch

\* what a receive leaves in the channel
AfterReceive(ch) == Tail(ch)

\* for job := range jobs: receive the next admitted job
WorkerRecv(w) ==
  /\ wPC[w] = "range"
  /\ rateLimitedJobs # <<>>
  /\ wJob' = [wJob EXCEPT ![w] = Head(rateLimitedJobs)]
  /\ rateLimitedJobs' = AfterReceive(rateLimitedJobs)
  /\ wPC' = [wPC EXCEPT ![w] = "check"]
  /\ pulls' = [pulls EXCEPT ![Head(rateLimitedJobs)] = @ + 1]
  /\ pulledCancelled' = [pulledCancelled EXCEPT ![w] = cancelled]
  /\ UNCHANGED <<aside, jobs, maxWorkers, cancelled, mainPC, jobChan, jobChanClosed,
                 rateLimitedClosed, resultChan, resultClosed, ticker, senderVars, gateVars,
                 wResult, wExit, wgCount, closerPC, collectVars,
                 admitted, fetchCalls, fetchOut, analyzeCalls, analyzeOut, emitted, calls>>

\* for job := range jobs: the channel is closed and drained; return, wg.Done()
WorkerRangeEnd(w) ==
  /\ wPC[w] = "range"
  /\ rateLimitedJobs = <<>>
  /\ rateLimitedClosed
  /\ wPC' = [wPC EXCEPT ![w] = "done"]
  /\ wgCount' = wgCount - 1
  /\ UNCHANGED <<aside, jobs, maxWorkers, cancelled, mainPC, chans, ticker, senderVars, gateVars,
                 wJob, wResult, wExit, closerPC, collectVars, history>>

\* Variant of SeesCancel: the worker never looks at ctx.Done().
SeesCancelNever == FALSE

\* the worker's select: does it take the ctx.Done() case
SeesCancel == cancelled

\* Variant of FreshResult: the Result of the worker's previous job is reused.
StaleResult(w) == [wResult[w] EXCEPT !.Job = wJob[w]]

\* processJob: result := Result{Job: job}, for the job worker w holds
FreshResult(w) == NewResult(wJob[w])

\* Variant of CancelBranchReturns: the worker goes on after the cancellation Result.
CancelBranchContinues == FALSE

\* the ctx.Done() case of the worker ends with return
CancelBranchReturns == TRUE

\* select { case <-ctx.Done(): build the cancellation Result; default: processJob }
WorkerCheck(w) ==
  /\ wPC[w] = "check"
  /\ IF SeesCancel
       THEN /\ wResult' = [wResult EXCEPT ![w] = CancelResult(wJob[w])]
            /\ wExit' = [wExit EXCEPT ![w] = CancelBranchReturns]
            /\ wPC' = [wPC EXCEPT ![w] = "emit"]
       ELSE /\ wResult' = [wResult EXCEPT ![w] = FreshResult(w)]
            /\ wExit' = wExit
            /\ wPC' = [wPC EXCEPT ![w] = "fetch"]
  /\ UNCHANGED <<aside, jobs, maxWorkers, cancelled, mainPC, chans, ticker, senderVars, gateVars,
                 wJob, wgCount, closerPC, collectVars, history>>

\* processJob, Step 1: article, err := p.fetcher.Fetch(ctx, job.URL)
WorkerFetch(w) ==
  /\ wPC[w] = "fetch"
  /\ \E ok \in BOOLEAN :
       /\ wResult' = [wResult EXCEPT ![w] = AfterFetch(wResult[w], ok)]
       /\ wPC' = [wPC EXCEPT ![w] = IF FetchContinues(ok) THEN "analyze" ELSE AfterFetchFailure]
       /\ fetchOut' = [fetchOut EXCEPT ![wJob[w]] = IF ok THEN "ok" ELSE "fail"]
  /\ fetchCalls' = [fetchCalls EXCEPT ![wJob[w]] = @ + 1]
  /\ UNCHANGED <<aside, jobs, maxWorkers, cancelled, mainPC, chans, ticker, senderVars, gateVars,
                 wJob, wExit, wgCount, closerPC, collectVars,
                 admitted, pulls, pulledCancelled, analyzeCalls, analyzeOut, emitted, calls>>

\* processJob, Step 2: analysis, err := p.llmProvider.Analyze(ctx, article.Content, p.interests)
WorkerAnalyze(w) ==
  /\ wPC[w] = "analyze"
  /\ \E ok \in BOOLEAN :
       /\ wResult' = [wResult EXCEPT ![w] = AfterAnalyze(wResult[w], ok)]
       /\ analyzeOut' = [analyzeOut EXCEPT ![wJob[w]] = IF ok THEN "ok" ELSE "fail"]
  /\ wPC' = [wPC EXCEPT ![w] = "emit"]
  /\ analyzeCalls' = [analyzeCalls EXCEPT ![wJob[w]] = @ + 1]
  /\ UNCHANGED <<aside, jobs, maxWorkers, cancelled, mainPC, chans, ticker, senderVars, gateVars,
                 wJob, wExit, wgCount, closerPC, collectVars,
                 admitted, pulls, pulledCancelled, fetchCalls, fetchOut, emitted, calls>>

\* results <- result; after the cancellation Result: return, wg.Done()
WorkerEmit(w) ==
  /\ wPC[w] = "emit"
  /\ Len(resultChan) < ResultChanCap
  /\ resultChan' = Append(resultChan, wResult[w])
  /\ emitted' = Append(emitted, wResult[w])
  /\ IF wExit[w]
       THEN /\ wPC' = [wPC EXCEPT ![w] = "done"]
            /\ wgCount' = wgCount - 1
       ELSE /\ wPC' = [wPC EXCEPT ![w] = "range"]
            /\ wgCount' = wgCount
  /\ UNCHANGED <<aside, jobs, maxWorkers, cancelled, mainPC, jobChan, jobChanClosed, rateLimitedJobs,
                 rateLimitedClosed, resultClosed, ticker, senderVars, gateVars,
                 wJob, wResult, wExit, closerPC, collectVars,
                 admitted, pulls, pulledCancelled, fetchCalls, fetchOut, analyzeCalls,
                 analyzeOut, calls>>

---------------------------------------------------------------------------
\* Variant of WaitReturns: the wait ends when the first worker is done.
WaitReturnsEarly == wgCount < maxWorkers

\* Closer goroutine: wg.Wait() has returned
WaitReturns == wgCount = 0

\* wg.Wait(); close(resultChan)
CloserClose ==
  /\ closerPC = "wait"
  /\ WaitReturns
  /\ resultClosed' = TRUE
  /\ closerPC' = "done"
  /\ UNCHANGED <<aside, jobs, maxWorkers, cancelled, mainPC, jobChan, jobChanClosed, rateLimitedJobs,
                 rateLimitedClosed, resultChan, ticker, senderVars, gateVars,
                 workerVars, wgCount, collectVars, history>>

\* callback != nil: run passes a non-nil callback to Process
CallbackSet == TRUE

\* the arguments of callback(completed, len(jobs), &result)
CallbackArgs(c, result) == [completed |-> c, total |-> Len(jobs), result |-> result]

\* Variant of CollectRecv: callback is invoked before completed is incremented.
CollectRecvCallbackFirst ==
  /\ mainPC = "collect"
  /\ resultChan # <<>>
  /\ completed' = completed + 1
  /\ results' = Append(results, Head(resultChan))
  /\ resultChan' = Tail(resultChan)
  /\ calls' = IF CallbackSet THEN Append(calls, CallbackArgs(completed, Head(resultChan)))
                             ELSE calls
  /\ UNCHANGED <<aside, jobs, maxWorkers, cancelled, mainPC, jobChan, jobChanClosed, rateLimitedJobs,
                 rateLimitedClosed, resultClosed, ticker, senderVars, gateVars,
                 workerVars, wgCount, closerPC,
                 admitted, pulls, pulledCancelled, fetchCalls, fetchOut, analyzeCalls,
                 analyzeOut, emitted>>

\* Collector: for result := range resultChan { completed++; append; callback }
CollectRecv ==
  /\ mainPC = "collect"
  /\ resultChan # <<>>
  /\ completed' = completed + 1
  /\ results' = Append(results, Head(resultChan))
  /\ resultChan' = Tail(resultChan)
  /\ calls' = IF CallbackSet THEN Append(calls, CallbackArgs(completed + 1, Head(resultChan)))
                             ELSE calls
  /\ UNCHANGED <<aside, jobs, maxWorkers, cancelled, mainPC, jobChan, jobChanClosed, rateLimitedJobs,
                 rateLimitedClosed, resultClosed, ticker, senderVars, gateVars,
                 workerVars, wgCount, closerPC,
                 admitted, pulls, pulledCancelled, fetchCalls, fetchOut, analyzeCalls,
                 analyzeOut, emitted>>

\* resultChan is closed and drained: return results (the deferred Stop runs)
CollectReturn ==
  /\ mainPC = "collect"
  /\ resultChan = <<>>
  /\ resultClosed
  /\ mainPC' = "returned"
  /\ UNCHANGED <<aside, jobs, maxWorkers, cancelled, chans, ticker, senderVars, gateVars,
                 workerVars, wgCount, closerPC, collectVars, history>>

Sender == SenderSend \/ SenderCancel \/ SenderClose
Gate == GateRecv \/ GateRangeEnd \/ GateSelectCancel \/ GateSelectTick \/ GateSend
Worker(w) == WorkerRecv(w) \/ WorkerRangeEnd(w) \/ WorkerCheck(w) \/ WorkerFetch(w)
               \/ WorkerAnalyze(w) \/ WorkerEmit(w)

Next ==
  \/ Cancel
  \/ ProcessEmpty
  \/ ProcessStart
  \/ Tick
  \/ Sender
  \/ Gate
  \/ \E w \in Workers : Worker(w)
  \/ CloserClose
  \/ CollectRecv
  \/ CollectReturn

Spec == Init /\ [][Next]_vars

\* Scheduling: every goroutine that can take a step eventually takes one (a
\* Fetch, an Analyze and a callback return), and the ticker keeps ticking for
\* as long as Process runs. Cancellation may or may not happen.
Fairness ==
  /\ WF_vars(ProcessEmpty \/ ProcessStart)
  /\ WF_vars(Tick)
  /\ WF_vars(Sender)
  /\ WF_vars(Gate)
  /\ \A w \in 1..MaxWorkers : WF_vars(w \in Workers /\ Worker(w))
  /\ WF_vars(CloserClose)
  /\ WF_vars(CollectRecv \/ CollectReturn)

\* Bound of the runs checked for termination: jobs and workers together.
MaxLoad == 4

InitLive ==
  /\ \E k \in 0..MaxJobs, n \in 1..MaxWorkers :
        k + n <= MaxLoad /\ BeforeProcess([i \in 1..k |-> i], n)
  /\ AsideIdle

SpecLive == InitLive /\ [][Next]_vars /\ Fairness

\* Runs of one worker over a job list of up to MaxJobs + 1 jobs: more jobs
\* than the worker and the buffer of rateLimitedJobs can take together.
InitBacklog ==
  /\ \E k \in 0..(MaxJobs + 1) : BeforeProcess([i \in 1..k |-> i], 1)
  /\ AsideIdle

SpecBacklog == InitBacklog /\ [][Next]_vars /\ Fairness


---------------------------------------------------------------------------
\* parseAnalysisResult (internal/llm/openai.go)
\*
\* The response text is a sequence of tokens: white space, the opening code
\* fence with the tag json, the bare code fence (three backquotes), a JSON
\* object, any other text. The JSON object of a
\* response (if any) decodes to the fields of its doc record.

\* Bounds of the response texts.
MaxTokens == 3
MaxSummary == 2
ScoreExcess == 2

WS == "ws"
FenceJSON == "fence-json"
Fence == "fence"
Object == "object"
Text == "text"
Tokens == {WS, FenceJSON, Fence, Object, Text}

\* the sentinel category of parseAnalysisResult
DefaultCategory == "uncategorized"

Scores == (0 - ScoreExcess)..ScoreExcess \cup (100 - ScoreExcess)..(100 + ScoreExcess) \cup {50, 150}
Summaries == {[i \in 1..n |-> "point"] : n \in 0..MaxSummary}
\* category: omitted (decodes to ""), the empty string, or a label
Categories == {[present |-> FALSE, value |-> ""], [present |-> TRUE, value |-> ""],
               [present |-> TRUE, value |-> "tech"]}
Docs == [score : Scores, summary : Summaries, category : Categories]
TokenSeqs == UNION {[1..n -> Tokens] : n \in 0..MaxTokens}

RECURSIVE TrimLeft(_)
TrimLeft(t) == IF t # <<>> /\ Head(t) = WS THEN TrimLeft(Tail(t)) ELSE t

RECURSIVE TrimRight(_)
TrimRight(t) ==
  IF t # <<>> /\ t[Len(t)] = WS THEN TrimRight(SubSeq(t, 1, Len(t) - 1)) ELSE t

\* strings.TrimSpace
TrimSpace(t) == TrimRight(TrimLeft(t))

\* strings.TrimPrefix(content, FenceJSON)
TrimPrefixFenceJSON(t) == IF t # <<>> /\ Head(t) = FenceJSON THEN Tail(t) ELSE t

\* strings.TrimPrefix(content, Fence): of a leading FenceJSON the text json stays
TrimPrefixFence(t) ==
  IF t # <<>> /\ Head(t) = Fence THEN Tail(t)
  ELSE IF t # <<>> /\ Head(t) = FenceJSON THEN <<Text>> \o Tail(t)
  ELSE t

\* strings.TrimSuffix(content, Fence)
TrimSuffixFence(t) ==
  IF t # <<>> /\ t[Len(t)] = Fence THEN SubSeq(t, 1, Len(t) - 1) ELSE t

\* parseAnalysisResult: "Clean up response"
CleanUp(t) ==
  TrimSpace(TrimSuffixFence(TrimPrefixFence(TrimPrefixFenceJSON(TrimSpace(t)))))

\* json.Unmarshal succeeds: the text is one JSON object, white space around it allowed
Unmarshals(t) == TrimSpace(t) = <<Object>>

\* Variant of ClampScore: only the upper limit is applied.
ClampScoreUpperOnly(score) == IF score > 100 THEN 100 ELSE score

\* parseAnalysisResult: "Validate result", the two ifs on result.Score
ClampScore(score) ==
  LET low == IF score < 0 THEN 0 ELSE score
  IN IF low > 100 THEN 100 ELSE low

\* Variant of DefaultedCategory: an empty category is kept.
DefaultedCategoryKeeps(category) == category

\* parseAnalysisResult: the if on result.Category
DefaultedCategory(category) ==
  IF category = "" THEN DefaultCategory ELSE category

ParseError(msg) == [err |-> msg, result |-> Nil]

\* func parseAnalysisResult(content string) (*AnalysisResult, error)
parseAnalysisResult(c) ==
  IF ~Unmarshals(CleanUp(c.tokens))
    THEN ParseError("failed to parse LLM response as JSON")
  ELSE IF Len(c.doc.summary) = 0
    THEN ParseError("LLM returned empty summary")
  ELSE [err |-> NoError,
        result |-> [Score |-> ClampScore(c.doc.score),
                    Summary |-> c.doc.summary,
                    Category |-> DefaultedCategory(c.doc.category.value)]]

InitParse ==
  /\ BeforeProcess(<<>>, 1)
  /\ content \in [tokens : TokenSeqs, doc : Docs]
  /\ parsed = NotParsed
  /\ ctorPC = "off" /\ ctorIn = Nil /\ cfg = Nil /\ proc = Nil

\* the call of parseAnalysisResult by the Analyze of a provider
Parse ==
  /\ parsed.err = NotParsed.err
  /\ parsed' = parseAnalysisResult(content)
  /\ UNCHANGED <<pipeline, content, ctorVars>>

NextParse == Parse

SpecParse == InitParse /\ [][NextParse]_vars

---------------------------------------------------------------------------
\* Construction of the pipeline: config.Load, the command line flags of run,
\* processor.New, and the time.NewTicker call at the head of Process.
\*
\* A rate (float64) is a fraction num/den with den > 0; a time.Duration is a
\* number of nanoseconds.

Rate(n, d) == [num |-> n, den |-> d]

\* time.Second, in nanoseconds
Second == 1000000000

\* The result of converting +Inf to time.Duration depends on the platform: the
\* least int64 (amd64) or the greatest int64 (arm64). These two stand for them.
MinDuration == 0 - 2147483647
MaxDuration == 2147483647

\* DefaultConfig: MaxWorkers and RateLimit
DefaultMaxWorkers == 5
DefaultRateLimit == Rate(10, 1)

\* floor(a * b / c) for a, b >= 0 and c > 0, without the intermediate product a * b
MulDiv(a, b, c) == (a \div c) * b + ((a % c) * b) \div c

\* New: the values tickDuration can take for a rateLimit
TickDurations(rateLimit) ==
  IF rateLimit.num >= rateLimit.den
    THEN {Second \div (rateLimit.num \div rateLimit.den)}
  ELSE IF rateLimit.num > 0
    THEN {MulDiv(Second, rateLimit.den, rateLimit.num)}
  ELSE IF rateLimit.num = 0
    THEN {MinDuration, MaxDuration}
  ELSE {0 - MulDiv(Second, rateLimit.den, 0 - rateLimit.num)}

\* func New(f, provider, interests, maxWorkers, rateLimit) *Processor
New(mw, rateLimit) ==
  {[maxWorkers |-> mw, rateLimitTick |-> t] : t \in TickDurations(rateLimit)}

NoConfig == [MaxWorkers |-> 0, RateLimit |-> Rate(0, 1), err |-> "unset"]
NoProcessor == [maxWorkers |-> 0, rateLimitTick |-> 0]

\* func DefaultConfig() *Config
DefaultConfig ==
  [MaxWorkers |-> DefaultMaxWorkers, RateLimit |-> DefaultRateLimit, err |-> NoError]

\* func (c *Config) Validate() error; fieldsOK: provider, key, model,
\* interests and threshold pass their checks
Validate(c, fieldsOK) ==
  IF ~fieldsOK THEN [c EXCEPT !.err = "invalid configuration"]
  ELSE [MaxWorkers |-> IF c.MaxWorkers < 1 THEN DefaultMaxWorkers ELSE c.MaxWorkers,
        RateLimit |-> IF c.RateLimit.num <= 0 THEN DefaultRateLimit ELSE c.RateLimit,
        err |-> NoError]

\* The inputs of a construction: New called with the arguments themselves
\* ("New"), or run with no configuration file ("defaults") or with a
\* configuration file holding max_workers and rate_limit_per_second ("file").
WorkerCounts == {0 - 1, 0, 1, DefaultMaxWorkers}
Rates == {Rate(0 - 1, 1), Rate(0, 1), Rate(1, 2), Rate(1, 1), Rate(3, 2),
          Rate(10, 1), Rate(2 * Second, 1)}
WorkerFlags == {0 - 1, 3}
CtorInputs ==
  [via : {"New", "defaults", "file"}, fieldsOK : BOOLEAN,
   maxWorkers : WorkerCounts, rate : Rates, maxWorkersFlag : WorkerFlags]

InitNew ==
  /\ BeforeProcess(<<>>, 1)
  /\ content = <<>> /\ parsed = NotParsed
  /\ ctorIn \in CtorInputs
  /\ ctorPC = IF ctorIn.via = "New" THEN "new" ELSE "load"
  /\ cfg = NoConfig
  /\ proc = NoProcessor

\* config.Load, no configuration file found: the defaults, not validated
LoadDefaults ==
  /\ ctorPC = "load" /\ ctorIn.via = "defaults"
  /\ cfg' = DefaultConfig
  /\ ctorPC' = "flags"
  /\ UNCHANGED <<pipeline, parseVars, ctorIn, proc>>

\* config.Load, configuration file read: the defaults overwritten by the
\* file, then Validate; run returns the error of Load
LoadFile ==
  /\ ctorPC = "load" /\ ctorIn.via = "file"
  /\ cfg' = Validate([DefaultConfig EXCEPT !.MaxWorkers = ctorIn.maxWorkers,
                                           !.RateLimit = ctorIn.rate],
                     ctorIn.fieldsOK)
  /\ ctorPC' = IF cfg'.err # NoError THEN "error" ELSE "flags"
  /\ UNCHANGED <<pipeline, parseVars, ctorIn, proc>>

\* run: "Override config with CLI flags"
ApplyFlags ==
  /\ ctorPC = "flags"
  /\ cfg' = IF ctorIn.maxWorkersFlag > 0
              THEN [cfg EXCEPT !.MaxWorkers = ctorIn.maxWorkersFlag]
              ELSE cfg
  /\ ctorPC' = "new"
  /\ UNCHANGED <<pipeline, parseVars, ctorIn, proc>>

\* processor.New, called by run with the configuration or by a caller with
\* its own arguments; it has no error return
CallNew ==
  /\ ctorPC = "new"
  /\ proc' \in IF ctorIn.via = "New" THEN New(ctorIn.maxWorkers, ctorIn.rate)
               ELSE New(cfg.MaxWorkers, cfg.RateLimit)
  /\ ctorPC' = "made"
  /\ UNCHANGED <<pipeline, parseVars, ctorIn, cfg>>

\* Process on a non-empty job list: time.NewTicker(p.rateLimitTick) panics on
\* a non-positive interval
StartTicker ==
  /\ ctorPC = "made"
  /\ ctorPC' = IF proc.rateLimitTick <= 0 THEN "panic" ELSE "ticking"
  /\ UNCHANGED <<pipeline, parseVars, ctorIn, cfg, proc>>

NextNew ==
  \/ LoadDefaults
  \/ LoadFile
  \/ ApplyFlags
  \/ CallNew
  \/ StartTicker

SpecNew == InitNew /\ [][NextNew]_vars

---------------------------------------------------------------------------
\* Properties

\* Results sent so far that the collector has or will receive: first the
\* collected ones, then those buffered in resultChan.
AllResults == results \o resultChan

ResultsOf(j) == {i \in DOMAIN AllResults : AllResults[i].Job = j}
NumResultsOf(j) == Len(SelectSeq(AllResults, LAMBDA r : r.Job = j))
ReturnedOf(j) == {i \in DOMAIN results : results[i].Job = jobs[j]}

\* C1 (Completeness): when Process returns from a run over a non-empty job
\* list in which ctx was never cancelled, results holds exactly len(jobs)
\* Results, exactly one for each input job and carrying that job.
C1_Completeness ==
  (mainPC = "returned" /\ ~cancelled /\ Len(jobs) > 0) =>
     /\ Len(results) = Len(jobs)
     /\ \A j \in JobIds : Cardinality(ReturnedOf(j)) = 1

\* Two workers, one fetch fails, the other job has a full Result, and the
\* Results are returned out of input order.
C1_Witness ==
  /\ mainPC = "returned" /\ ~cancelled
  /\ Len(jobs) = MaxJobs /\ maxWorkers = 2
  /\ Cardinality({i \in DOMAIN results : results[i].Error = FetchFailed}) = 1
  /\ Cardinality({i \in DOMAIN results : results[i].Error = NoError}) = Len(jobs) - 1
  /\ results[1].Job # jobs[1]

\* Occurrences of job j in a sequence of jobs.
Count(seq, j) == Len(SelectSeq(seq, LAMBDA x : x = j))

C3_AdmittedHaveResult ==
  mainPC = "returned" =>
     \A i \in DOMAIN admitted : \E k \in DOMAIN results : results[k].Job = admitted[i]

\* C4 (Rate bound): the number of jobs placed on rateLimitedJobs never exceeds
\* the number of ticks delivered, each delivered tick being either still
\* buffered in rateLimiter.C or taken for exactly one job; so once all
\* len(jobs) jobs are admitted at least len(jobs) ticks have been delivered,
\* which are len(jobs)-1 tick intervals apart.
C4_RateBound ==
  /\ Len(admitted) <= ticks
  /\ ticks = Len(admitted) + (IF gatePC = "send" THEN 1 ELSE 0) + (IF tickReady THEN 1 ELSE 0)
  /\ (Len(jobs) > 0 /\ Len(admitted) = Len(jobs)) => ticks - 1 >= Len(jobs) - 1

\* All jobs admitted, one per tick, while both workers are idle.
C4_Witness ==
  /\ Len(jobs) = MaxJobs /\ maxWorkers = 2
  /\ Len(admitted) = Len(jobs) /\ ticks = Len(jobs)
  /\ \A w \in Workers : wPC[w] = "range"

\* C5 (Admission order): the sequence of jobs placed on rateLimitedJobs is at
\* every moment a prefix of the job list.
C5_AdmissionOrder ==
  /\ Len(admitted) <= Len(jobs)
  /\ admitted = SubSeq(jobs, 1, Len(admitted))

\* Jobs admitted in order whose Results arrived out of input order.
C5_Witness ==
  /\ Len(admitted) >= 2
  /\ Len(results) >= 2
  /\ results[1].Job = jobs[2] /\ results[2].Job = jobs[1]

\* Results that processJob returned: sent ones and those a worker is about to send.
IsProcessJobResult(r) == r.Error # Canceled
Pending == {wResult[w] : w \in {v \in Workers : wPC[v] = "emit"}}
Produced == {AllResults[i] : i \in DOMAIN AllResults} \cup Pending

\* C6 (Outcome mapping of processJob): a Result of processJob is, according
\* to what Fetch and Analyze returned for its job, (no Article, no Analysis,
\* "fetch failed"), (Article, no Analysis, "analysis failed") or (Article,
\* Analysis, no error), and nothing else.
C6_OutcomeMapping ==
  \A r \in {x \in Produced : IsProcessJobResult(x)} :
     LET j == r.Job IN
       /\ fetchOut[j] # "none"
       /\ fetchOut[j] = "fail" => r = Result(j, Nil, Nil, FetchFailed)
       /\ (fetchOut[j] = "ok" /\ analyzeOut[j] = "fail") => r = Result(j, j, Nil, AnalysisFailed)
       /\ (fetchOut[j] = "ok" /\ analyzeOut[j] = "ok") => r = Result(j, j, j, NoError)
       /\ fetchOut[j] = "ok" => analyzeOut[j] # "none"

\* A run with a fetch failure and an analysis failure that kept its Article.
C6_Witness ==
  \E a, b \in Produced :
     /\ a.Error = FetchFailed /\ fetchOut[a.Job] = "fail"
     /\ b.Error = AnalysisFailed /\ analyzeOut[b.Job] = "fail" /\ b.Article = b.Job

\* C7 (Fetch before analyze): Analyze is called for a job only when Fetch has
\* returned successfully for that job; a job whose Fetch failed or whose
\* Result is the cancellation Result has no Analyze call.
C7_FetchBeforeAnalyze ==
  /\ \A j \in JobIds : analyzeCalls[j] > 0 => fetchOut[j] = "ok"
  /\ \A w \in Workers : wPC[w] = "analyze" => fetchOut[wJob[w]] = "ok"
  /\ \A r \in Produced : r.Error \in {FetchFailed, Canceled} => analyzeCalls[r.Job] = 0

\* A run with an analysed job and a job whose fetch failed.
C7_Witness ==
  /\ \E j \in JobIds : analyzeCalls[j] = 1 /\ fetchOut[j] = "ok"
  /\ \E r \in Produced : r.Error = FetchFailed /\ fetchCalls[r.Job] = 1

\* The classification that the outcomes of the two collaborators for one job
\* determine.
Classify(fetch, analyze) ==
  IF fetch # "ok" THEN FetchFailed
  ELSE IF analyze # "ok" THEN AnalysisFailed
  ELSE NoError

\* C8 (Isolation and determinism): as long as ctx is not cancelled, the
\* classification of every Result is the one that the Fetch and Analyze
\* outcomes for its own job determine, for every worker count, interleaving
\* and outcome of the other jobs.
C8_Isolation ==
  ~cancelled =>
     \A r \in Produced : r.Error = Classify(fetchOut[r.Job], analyzeOut[r.Job])

\* A worker that had a failed job returns a success for its next job.
C8_Witness ==
  /\ ~cancelled /\ mainPC = "returned" /\ maxWorkers = 1
  /\ Len(results) = 2
  /\ results[1].Error = FetchFailed
  /\ results[2].Error = NoError

\* C9 (No admission after cancellation), as claimed: no step taken while ctx
\* is cancelled places a job on rateLimitedJobs.
C9_NoAdmissionAfterCancel == [][cancelled => admitted' = admitted]_vars

\* C10 (Worker cancellation check): a worker that received its job while ctx
\* was cancelled never calls Fetch or Analyze for it, sends exactly one
\* Result for it, the cancellation Result, and returns without receiving
\* another job.
C10_WorkerCancelCheck ==
  \A w \in Workers : pulledCancelled[w] =>
     /\ wPC[w] \in {"check", "emit", "done"}
     /\ fetchCalls[wJob[w]] = 0 /\ analyzeCalls[wJob[w]] = 0
     /\ wPC[w] = "check" => NumResultsOf(wJob[w]) = 0
     /\ wPC[w] = "emit" => wResult[w] = CancelResult(wJob[w]) /\ NumResultsOf(wJob[w]) = 0
     /\ wPC[w] = "done" =>
          /\ NumResultsOf(wJob[w]) = 1
          /\ \A i \in ResultsOf(wJob[w]) : AllResults[i] = CancelResult(wJob[w])

\* A worker has returned after the cancellation Result while a job is still
\* waiting in rateLimitedJobs.
C10_Witness ==
  \E w \in Workers :
     /\ pulledCancelled[w] /\ wPC[w] = "done"
     /\ rateLimitedJobs # <<>>

\* C11 (Pool shutdown ordering): resultChan is closed only when every worker
\* has returned, and Process returns only when resultChan is closed and
\* drained; so at the return every Result a worker sent is in results and no
\* worker is inside Fetch or Analyze.
C11_ShutdownOrdering ==
  /\ resultClosed => (wgCount = 0 /\ \A w \in Workers : wPC[w] = "done")
  /\ (mainPC = "returned" /\ Len(jobs) > 0) =>
        /\ resultClosed /\ resultChan = <<>>
        /\ results = emitted
        /\ \A w \in Workers : wPC[w] \notin {"fetch", "analyze"}

\* Process has returned after two workers sent a Result each.
C11_Witness ==
  /\ mainPC = "returned" /\ maxWorkers = 2
  /\ Len(emitted) = MaxJobs
  /\ \E i, k \in DOMAIN wJob : i # k /\ wJob[i] # Nil /\ wJob[k] # Nil

\* C12 (Progress callback and return order): the k-th invocation of callback
\* receives completed = k, total = len(jobs) and the k-th element of results;
\* completed equals the number of collected Results and never exceeds total.
C12_CallbackOrder ==
  /\ Len(calls) = Len(results)
  /\ \A k \in DOMAIN calls : calls[k] = [completed |-> k, total |-> Len(jobs), result |-> results[k]]
  /\ completed = Len(results)
  /\ completed <= Len(jobs)

\* Two invocations, in arrival order, which is not the input order.
C12_Witness ==
  /\ mainPC = "returned"
  /\ Len(calls) = 2
  /\ calls[1].result.Job = jobs[2] /\ calls[2].completed = 2

\* C13 (Empty input): with an empty job list Process returns an empty
\* sequence and nothing else happens: no callback, no tick, no rate limiter,
\* sender, worker or closer, no Result.
C13_EmptyInput ==
  Len(jobs) = 0 =>
     /\ results = <<>> /\ completed = 0 /\ calls = <<>>
     /\ ticks = 0 /\ ~tickReady
     /\ senderPC = "idle" /\ gatePC = "idle" /\ closerPC = "idle"
     /\ Workers = {} /\ wgCount = 0
     /\ emitted = <<>> /\ admitted = <<>>
     /\ jobChan = <<>> /\ ~jobChanClosed /\ ~rateLimitedClosed /\ ~resultClosed

\* Process has returned from a call with no jobs.
C13_Witness == Len(jobs) = 0 /\ mainPC = "returned"

\* Workers inside per-job execution.
Executing == {w \in Workers : wPC[w] \in {"fetch", "analyze"}}

\* C15 (Bounded concurrency): from the start of a run there are exactly
\* maxWorkers workers, and at most maxWorkers jobs are inside Fetch or Analyze
\* at any moment.
C15_BoundedConcurrency ==
  /\ mainPC = "call" => Workers = {}
  /\ (mainPC # "call" /\ Len(jobs) > 0) => Cardinality(Workers) = maxWorkers
  /\ Cardinality(Executing) <= maxWorkers
  /\ Cardinality({wJob[w] : w \in Executing}) = Cardinality(Executing)
  /\ wgCount <= maxWorkers

\* Both workers are inside per-job execution at once.
C15_Witness ==
  /\ maxWorkers = 2
  /\ Cardinality(Executing) = 2

\* C16 (No retry): Fetch and Analyze are each called at most once per job, and
\* a job that has a Result is not queued or executed again.
C16_NoRetry ==
  /\ \A j \in JobIds : fetchCalls[j] <= 1 /\ analyzeCalls[j] <= 1
  /\ \A i \in DOMAIN emitted :
       LET j == emitted[i].Job IN
         /\ Count(jobChan, j) = 0 /\ Count(rateLimitedJobs, j) = 0
         /\ gatePC \in {"select", "send"} => gateJob # j
         /\ \A w \in Workers : wPC[w] \in {"check", "fetch", "analyze", "emit"} => wJob[w] # j
         /\ Cardinality({k \in DOMAIN emitted : emitted[k].Job = j}) = 1

\* A worker took another job after a fetch failure and an analysis failure
\* were reported.
C16_Witness ==
  /\ \E i \in DOMAIN emitted : emitted[i].Error = FetchFailed
  /\ \E i \in DOMAIN emitted : emitted[i].Error = AnalysisFailed
  /\ \A w \in Workers : wPC[w] = "range"

\* C17 (Abandoned jobs are not reported): every Result belongs to a job that
\* was placed on rateLimitedJobs; a job never placed there is never received
\* and has no Result; so there are at most as many Results as admitted jobs,
\* and at most len(jobs).
C17_AbandonedNotReported ==
  /\ \A r \in (Produced \cup {emitted[i] : i \in DOMAIN emitted}) : Count(admitted, r.Job) = 1
  /\ \A j \in JobIds : Count(admitted, j) = 0 => (pulls[j] = 0 /\ NumResultsOf(j) = 0)
  /\ Len(emitted) <= Len(admitted)
  /\ Len(admitted) <= Len(jobs)

\* A cancelled run has returned with a Result for the admitted job only.
C17_Witness ==
  /\ mainPC = "returned" /\ cancelled
  /\ Len(jobs) = MaxJobs
  /\ Len(admitted) = 1 /\ Len(results) = 1
  /\ gatePC = "done" /\ senderPC = "done"

\* C18 (Result well-formedness): in every Result, Error is absent exactly
\* when Article and Analysis are both present, Analysis is present only with
\* Article, and Job is one of the input jobs.
WellFormed(r) ==
  /\ (r.Error = NoError) <=> (r.Article # Nil /\ r.Analysis # Nil)
  /\ r.Analysis # Nil => r.Article # Nil
  /\ \E j \in JobIds : r.Job = jobs[j]
  /\ r.Article \in {Nil, r.Job} /\ r.Analysis \in {Nil, r.Job}

C18_WellFormedResults ==
  /\ \A i \in DOMAIN results : WellFormed(results[i])
  /\ \A i \in DOMAIN resultChan : WellFormed(resultChan[i])

\* A returned sequence with an analysis failure that kept its Article and a
\* cancellation Result.
C18_Witness ==
  /\ mainPC = "returned"
  /\ \E i \in DOMAIN results : results[i].Error = AnalysisFailed /\ results[i].Article # Nil
  /\ \E i \in DOMAIN results : results[i] = CancelResult(results[i].Job)

\* C20 (No backpressure from the collector): resultChan never holds more than
\* its capacity and has a free slot whenever a worker is about to send, and
\* jobChan has a free slot whenever the sender is about to send, however far
\* behind the collector is.
C20_NoBackpressure ==
  /\ Len(resultChan) <= ResultChanCap
  /\ \A w \in Workers : wPC[w] = "emit" => Len(resultChan) < ResultChanCap
  /\ Len(jobChan) <= JobChanCap
  /\ (senderPC = "loop" /\ senderIdx <= Len(jobs)) => Len(jobChan) < JobChanCap

\* Every Result is buffered while the collector has not taken any.
C20_Witness ==
  /\ Len(jobs) = MaxJobs
  /\ Len(resultChan) = Len(jobs)
  /\ results = <<>> /\ calls = <<>>
  /\ resultClosed

\* parseAnalysisResult has returned, and returned a result
ParsedOK == parsed.err = NoError

\* the clamp of a score to [0,100], as the claim states it
Min2(a, b) == IF a <= b THEN a ELSE b
Max2(a, b) == IF a >= b THEN a ELSE b

\* C19 (Score clamping): every AnalysisResult that parseAnalysisResult returns
\* has Score = min(100, max(0, s)) for the score s of the response, hence a
\* Score in 0..100.
C19_ScoreClamping ==
  ParsedOK =>
     /\ parsed.result.Score = Min2(100, Max2(0, content.doc.score))
     /\ parsed.result.Score \in 0..100

\* The scenario of the spec: a fenced response with score 150 is returned
\* with Score 100.
C19_Witness ==
  /\ ParsedOK
  /\ content.tokens = <<FenceJSON, Object, Fence>>
  /\ content.doc.score = 150 /\ parsed.result.Score = 100

\* A negative score is returned as 0.
C19_WitnessNegative ==
  /\ ParsedOK
  /\ content.doc.score < 0 /\ parsed.result.Score = 0

\* a construction that was given the rate r
RateGiven(r) == ctorIn.via \in {"New", "file"} /\ ctorIn.rate = r

\* C14 (Non-positive rate rejected): a construction given a rate <= 0 ends in
\* an error: no Processor is made of it, and Process never starts a ticker
\* or panics for it.
C14_NonPositiveRateRejected ==
  (\E r \in Rates : r.num <= 0 /\ RateGiven(r)) =>
     ctorPC \notin {"made", "ticking", "panic"}

\* parseAnalysisResult has returned
Parsed == parsed.err # NotParsed.err

\* A response that cannot be decoded, whatever is trimmed off it: it holds no
\* JSON object, or more than one, or text that is not JSON.
Undecodable(t) ==
  \/ Len(SelectSeq(t, LAMBDA x : x = Object)) # 1
  \/ \E i \in DOMAIN t : t[i] = Text

\* C24 as claimed: an error and no result for an undecodable response or an
\* empty summary; a returned result has a non-empty summary and category, the
\* category being the default exactly when the response omitted it and the
\* value of the response otherwise.
C24_ShapeAsClaimed ==
  Parsed =>
     /\ (Undecodable(content.tokens) \/ content.doc.summary = <<>>) =>
           (parsed.err # NoError /\ parsed.result = Nil)
     /\ ParsedOK =>
           /\ parsed.result.Summary # <<>>
           /\ parsed.result.Category # ""
           /\ (parsed.result.Category = DefaultCategory) <=> ~content.doc.category.present
           /\ content.doc.category.present =>
                 parsed.result.Category = content.doc.category.value

\* C24 (AnalysisResult shape), amended: an error and no result for an
\* undecodable response or an empty summary; a returned result has the
\* summary of the response, which is non-empty, and a non-empty category: the
\* default when the response omitted the category or gave the empty string,
\* and the value of the response otherwise.
C24_AnalysisResultShape ==
  Parsed =>
     /\ (Undecodable(content.tokens) \/ content.doc.summary = <<>>) =>
           (parsed.err # NoError /\ parsed.result = Nil)
     /\ ParsedOK =>
           /\ parsed.result.Summary = content.doc.summary
           /\ parsed.result.Summary # <<>>
           /\ parsed.result.Category # ""
           /\ parsed.result.Category =
                 IF ~content.doc.category.present \/ content.doc.category.value = ""
                   THEN DefaultCategory
                   ELSE content.doc.category.value

\* A fenced response with the empty string as category is returned with the
\* default category.
C24_Witness ==
  /\ ParsedOK
  /\ content.tokens = <<FenceJSON, Object, Fence>>
  /\ content.doc.category = [present |-> TRUE, value |-> ""]
  /\ Len(parsed.result.Summary) = MaxSummary
  /\ parsed.result.Category = DefaultCategory

\* New has returned a Processor
Constructed == ctorPC \in {"made", "ticking", "panic"}

\* the rateLimit that New was called with
NewRate == IF ctorIn.via = "New" THEN ctorIn.rate ELSE cfg.RateLimit

\* 1/R seconds in whole nanoseconds, rounded down
ExactInterval(r) == MulDiv(Second, r.den, r.num)

\* C22 (Tick interval computation), as claimed: the tick interval of a
\* Processor made by New for a positive rate R is 1/R seconds, to the
\* nanosecond.
C22_TickInterval ==
  (Constructed /\ NewRate.num > 0) =>
     proc.rateLimitTick - ExactInterval(NewRate) \in {0, 1}

\* C23 (Invalid worker count rejected), as claimed: a construction given
\* maxWorkers < 1 ends in an error, and New never returns a Processor with
\* maxWorkers < 1.
C23_WorkerCountRejected ==
  /\ (ctorIn.via \in {"New", "file"} /\ ctorIn.maxWorkers < 1) => ~Constructed
  /\ Constructed => proc.maxWorkers >= 1

\* C28 (Positive tick interval), as claimed: the tick interval of a
\* Processor made by New for a positive rate is greater than zero, and
\* time.NewTicker does not panic for it.
C28_PositiveTick ==
  (Constructed /\ NewRate.num > 0) =>
     (proc.rateLimitTick > 0 /\ ctorPC # "panic")

\* C25 (Channel protocol safety): a channel is closed only by its owner (the
\* sender, the rate limiter, the closer), which has finished once the channel
\* is closed, so no channel is closed twice; a closed channel stays closed and
\* nothing is sent on it, and resultChan is closed only when no worker is
\* left to send.
C25_ChannelProtocol ==
  [][/\ jobChanClosed' => senderPC' = "done"
     /\ rateLimitedClosed' => gatePC' = "done"
     /\ resultClosed' => (closerPC' = "done" /\ \A w \in DOMAIN wPC' : wPC'[w] = "done")
     /\ (jobChanClosed' /\ ~jobChanClosed) => senderPC = "loop"
     /\ (rateLimitedClosed' /\ ~rateLimitedClosed) => gatePC \in {"range", "select"}
     /\ (resultClosed' /\ ~resultClosed) => closerPC = "wait"
     /\ jobChanClosed => (jobChanClosed' /\ Len(jobChan') <= Len(jobChan))
     /\ rateLimitedClosed =>
           (rateLimitedClosed' /\ Len(rateLimitedJobs') <= Len(rateLimitedJobs))
     /\ resultClosed => (resultClosed' /\ Len(resultChan') <= Len(resultChan))
    ]_vars

\* A cancelled run: the sender closed jobChan with jobs unsent, the rate
\* limiter closed rateLimitedJobs, the closer closed resultChan.
C25_Witness ==
  /\ cancelled /\ mainPC = "returned"
  /\ jobChanClosed /\ senderIdx <= Len(jobs)
  /\ rateLimitedClosed /\ resultClosed

\* cancellation Results in a sequence of Results
CancelResults(seq) == Len(SelectSeq(seq, LAMBDA r : r.Error = Canceled))

\* workers that returned from their ctx.Done() case
ReturnedOnCancel == {w \in Workers : wExit[w] /\ wPC[w] = "done"}

\* C27 (Bounded cancellation Results): every cancellation Result sent is the
\* last Result of a different worker, which has returned, so there are at
\* most maxWorkers of them in the returned sequence; a worker that received
\* a job after the cancellation never gets back to receiving.
C27_BoundedCancelResults ==
  /\ CancelResults(emitted) = Cardinality(ReturnedOnCancel)
  /\ CancelResults(emitted) <= maxWorkers
  /\ CancelResults(results) <= maxWorkers
  /\ \A w \in Workers :
       /\ wExit[w] => wPC[w] \in {"emit", "done"}
       /\ (wExit[w] /\ wPC[w] = "emit") => wResult[w] = CancelResult(wJob[w])
       /\ pulledCancelled[w] => wPC[w] # "range"

\* Two workers have each returned a cancellation Result.
C27_Witness ==
  /\ mainPC = "returned" /\ maxWorkers = 2
  /\ CancelResults(results) = 2

\* C21 (Termination of Process): under fair scheduling every call of Process
\* returns, whether ctx is cancelled during the run or not.
C21_Termination == <>(mainPC = "returned")

\* Process has returned from a run that was cancelled before all jobs were
\* sent, with fewer Results than jobs.
C21_Witness ==
  /\ mainPC = "returned" /\ cancelled
  /\ senderIdx <= Len(jobs)
  /\ Len(results) < Len(jobs)

\* every goroutine that Process started has returned
GoroutinesDone ==
  /\ senderPC = "done" /\ gatePC = "done" /\ closerPC = "done"
  /\ \A w \in Workers : wPC[w] = "done"

\* C26 (No goroutine leak), as claimed: in every run over a non-empty job
\* list, the sender, the rate limiter, every worker and the closer
\* eventually return.
C26_NoGoroutineLeak == <>(Len(jobs) > 0 => GoroutinesDone)

====
